---- MODULE Spec2Model ----
(***************************************************************************)
(* Model of the registrations dashboard (src/registrations.py): the        *)
(* load-time normalisation of the upstream records, the filter engine, the *)
(* reactive callbacks and the figure / statistics they produce.            *)
(***************************************************************************)
EXTENDS Integers, Sequences, FiniteSets, TLC

VARIABLES
    raw_data,           \* the upstream response r.json(), one record per registration
    registration_data,  \* the module-level DataFrame after preprocessing
    page,               \* "layout": layout built, no callback run yet; "ready": page served
    date_field,         \* value of 'date-field-selector'
    year_options,       \* options of 'year-dropdown'
    selected_years,     \* value of 'year-dropdown' (list, in the order of selection)
    selected_degree_types, \* value of 'degreetype-dropdown'
    selected_fields,    \* value of 'primary-field-dropdown'
    selected_countries, \* value of 'country-dropdown'
    selected_tiers,     \* value of 'tier-dropdown'
    n_clicks,           \* n_clicks of 'clear-filters-btn' (0 models None)
    filter_stats,       \* children of 'filter-stats'
    stats_raised,       \* TRUE iff the last update_filter_stats run raised
    chart_subtitle,     \* children of 'chart-subtitle'
    figure,             \* figure of 'registration-graph'
    cal_date,           \* calendar study: the timestamp under study
    cal_done,           \* calendar study: TRUE once the mapper was applied to cal_date
    cal_ay,             \* calendar study: get_academic_year(cal_date)
    cal_days            \* calendar study: date_to_academic_days(cal_date, cal_ay)

vars == <<raw_data, registration_data, page, date_field, year_options,
          selected_years, selected_degree_types, selected_fields,
          selected_countries, selected_tiers, n_clicks, filter_stats,
          stats_raised, chart_subtitle, figure,
          cal_date, cal_done, cal_ay, cal_days>>

appVars == <<raw_data, registration_data, page, date_field, year_options,
             selected_years, selected_degree_types, selected_fields,
             selected_countries, selected_tiers, n_clicks, filter_stats,
             stats_raised, chart_subtitle, figure>>

calVars == <<cal_date, cal_done, cal_ay, cal_days>>

(***************************************************************************)
(* Bounds of the model.                                                    *)
(***************************************************************************)
\* Largest number of records in the upstream response.
MaxRecords == 3
\* Largest number of clicks on the clear-filters button in one behaviour.
MaxClicks == 1
\* The calendar study covers the years CalFirstYear .. CalFirstYear + CalSpan.
CalSpan == 5

(***************************************************************************)
(* Missing values.  TLC compares only values of one kind, so a missing     *)
(* value is an out-of-band value of the column's kind.                     *)
(***************************************************************************)
\* None in a string column.
None == "None"
\* NaN in the numeric tier column (tiers are positive).
NaN == 0 - 1
\* pandas.NaT in a datetime column.
NaT == [year |-> 0, month |-> 0, day |-> 0, hour |-> 0]

(***************************************************************************)
(* Timestamps: proleptic Gregorian calendar date plus hour of the day.     *)
(***************************************************************************)
IsLeap(y) == (y % 4 = 0 /\ y % 100 # 0) \/ y % 400 = 0

DaysInMonth(y, m) ==
    IF m = 2 THEN (IF IsLeap(y) THEN 29 ELSE 28)
    ELSE IF m \in {4, 6, 9, 11} THEN 30 ELSE 31

\* Number of days before January 1 of year y.
DaysBeforeYear(y) ==
    (y - 1) * 365 + ((y - 1) \div 4) - ((y - 1) \div 100) + ((y - 1) \div 400)

RECURSIVE DaysBeforeMonth(_, _)
\* Number of days in year y before the first day of month m.
DaysBeforeMonth(y, m) ==
    IF m = 1 THEN 0 ELSE DaysBeforeMonth(y, m - 1) + DaysInMonth(y, m - 1)

\* Proleptic Gregorian ordinal of a date (January 1 of year 1 is day 1).
Ordinal(y, m, d) == DaysBeforeYear(y) + DaysBeforeMonth(y, m) + d

\* pd.Timestamp(year=..., month=..., day=...): midnight of that day.
Timestamp(y, m, d) == [year |-> y, month |-> m, day |-> d, hour |-> 0]

\* The value of a timestamp, in hours.
TsValue(ts) == Ordinal(ts.year, ts.month, ts.day) * 24 + ts.hour

\* Timestamp >= Timestamp; every comparison with NaT is False.
TsGe(a, b) == a # NaT /\ b # NaT /\ TsValue(a) >= TsValue(b)

\* (a - b).days: Timedelta.days is the floor of the difference in days.
TimedeltaDays(a, b) == (TsValue(a) - TsValue(b)) \div 24

\* cutoff_date = pd.to_datetime('2021-06-01')
CutoffYear == 2021
CutoffMonth == 6
CutoffDay == 1
cutoff_date == Timestamp(CutoffYear, CutoffMonth, CutoffDay)

(***************************************************************************)
(* Date -> Year conversion.                                                *)
(***************************************************************************)
\* Faulty variant: June counted with the academic year that ends.
get_academic_year_Mutant(date) ==
    IF date.month > 6 THEN date.year ELSE date.year - 1

get_academic_year(date) ==
    IF date.month >= 6 THEN date.year ELSE date.year - 1

\* Faulty variant: the academic year taken to start on May 1.
date_to_academic_days_Mutant(date, academic_year) ==
    TimedeltaDays(date, Timestamp(academic_year, 5, 1))

\* The nested helper of update_graph (the same in its three branches).
date_to_academic_days(date, academic_year) ==
    LET academic_start == Timestamp(academic_year, 6, 1)
    IN  TimedeltaDays(date, academic_start)

(***************************************************************************)
(* Sequences and sorting.                                                  *)
(***************************************************************************)
Range(s) == {s[i] : i \in 1..Len(s)}

Min(S) == CHOOSE x \in S : \A y \in S : x <= y

RECURSIVE SortedInts(_)
\* sorted(S) for a set of numbers: ascending.
SortedInts(S) == IF S = {} THEN <<>> ELSE <<Min(S)>> \o SortedInts(S \ {Min(S)})

\* sorted(..., reverse=True)
Reverse(s) == [i \in 1..Len(s) |-> s[Len(s) + 1 - i]]

\* The strings of the model, in lexicographic (code point) order.
StringOrder == <<"Macro", "Masters", "PhD", "US">>
StrRank(x) == CHOOSE i \in 1..Len(StringOrder) : StringOrder[i] = x

RECURSIVE SortedStrings(_)
\* sorted(S) for a set of strings: lexicographic.
SortedStrings(S) ==
    IF S = {} THEN <<>>
    ELSE LET m == CHOOSE x \in S : \A y \in S : StrRank(x) <= StrRank(y)
         IN  <<m>> \o SortedStrings(S \ {m})

RECURSIVE InsertByDate(_, _, _)
\* Insert row r into the list s, sorted on column by, after the rows that do
\* not sort after it.
InsertByDate(s, r, by) ==
    IF s = <<>> THEN <<r>>
    ELSE IF TsValue(r[by]) < TsValue(Head(s)[by]) THEN <<r>> \o s
    ELSE <<Head(s)>> \o InsertByDate(Tail(s), r, by)

RECURSIVE sort_values_from(_, _, _)
sort_values_from(rows, by, acc) ==
    IF rows = <<>> THEN acc
    ELSE sort_values_from(Tail(rows), by, InsertByDate(acc, Head(rows), by))

\* Faulty variant: the rows left in the order of the frame.
sort_values_Mutant(rows, by) == rows

\* DataFrame.sort_values(by).reset_index(drop=True): ascending on a datetime
\* column.  Rows with equal keys carry equal dates, and the callers read only
\* the sorted column, so the order among ties is not observable.
sort_values(rows, by) == sort_values_from(rows, by, <<>>)

\* np.arange(1, n + 1)
arange1(n) == [i \in 1..n |-> i]

(***************************************************************************)
(* The upstream service.  A response is a list of records; the model draws *)
(* it from a pool of registrations covering: two enrollment academic       *)
(* years, a last login in a later academic year than the enrollment, equal *)
(* enrollment dates, a date on May 31 of a leap year, missing field /      *)
(* country / tier, and dates before the cutoff or missing.                 *)
(***************************************************************************)
Ts(y, m, d, h) == [year |-> y, month |-> m, day |-> d, hour |-> h]

Raw(e, l, dt, pf, c, t) ==
    [enrolldate |-> e, date_last_login |-> l, degreetype |-> dt,
     primary_field |-> pf, country |-> c, tier |-> t]

UpstreamPool ==
    << Raw(Ts(2023, 1, 5, 10),  Ts(2023, 2, 1, 0),   "PhD",     "Macro", "US", 1),
       Raw(Ts(2022, 7, 1, 0),   Ts(2023, 6, 10, 9),  "Masters", None,    "US", 2),
       Raw(Ts(2022, 7, 1, 0),   Ts(2022, 8, 1, 0),   "PhD",     "Macro", None, NaN),
       Raw(Ts(2023, 6, 1, 0),   Ts(2024, 5, 31, 23), "Masters", "Macro", "US", 1),
       Raw(Ts(2021, 5, 31, 23), Ts(2022, 1, 1, 0),   "PhD",     "Macro", "US", 1),
       Raw(Ts(2021, 6, 1, 0),   NaT,                 "PhD",     "Macro", "US", 2),
       Raw(Ts(2022, 9, 1, 0),   Ts(2021, 5, 31, 23), "Masters", "Macro", "US", 2) >>

\* The responses of at most MaxRecords records (in pool order).  A response
\* without records has no 'enrolldate' column: preprocessing raises KeyError
\* and the process never serves a page.
Responses ==
    { [i \in 1..Cardinality(S) |-> UpstreamPool[SortedInts(S)[i]]] :
        S \in {T \in SUBSET (1..Len(UpstreamPool)) :
                  Cardinality(T) >= 1 /\ Cardinality(T) <= MaxRecords} }

(***************************************************************************)
(* Preprocessing (module level, run once at start).                        *)
(***************************************************************************)
Derive(r) ==
    [enrolldate |-> r.enrolldate, date_last_login |-> r.date_last_login,
     degreetype |-> r.degreetype, primary_field |-> r.primary_field,
     country |-> r.country, tier |-> r.tier,
     academic_year |-> get_academic_year(r.enrolldate),
     login_academic_year |-> get_academic_year(r.date_last_login),
     enroll_year |-> r.enrolldate.year]

\* Faulty variant: the cutoff applied to the enrollment date only.
preprocess_Mutant(raw) ==
    LET EnrollOk(r) == TsGe(r.enrolldate, cutoff_date)
        kept == SelectSeq(raw, EnrollOk)
    IN  [i \in 1..Len(kept) |-> Derive(kept[i])]

\* registration_data as the callbacks see it.
preprocess(raw) ==
    LET EnrollOk(r) == TsGe(r.enrolldate, cutoff_date)
        LoginOk(r) == TsGe(r.date_last_login, cutoff_date)
        kept == SelectSeq(SelectSeq(raw, EnrollOk), LoginOk)
    IN  [i \in 1..Len(kept) |-> Derive(kept[i])]

\* Dropdown options, computed once from registration_data.
Column(data, col) == {data[i][col] : i \in 1..Len(data)}

primary_fields == SortedStrings(Column(registration_data, "primary_field") \ {None})
countries == SortedStrings(Column(registration_data, "country") \ {None})
tiers == SortedInts(Column(registration_data, "tier") \ {NaN})
degree_types == SortedStrings(Column(registration_data, "degreetype") \ {None})
academic_years == SortedInts(Column(registration_data, "academic_year"))
login_academic_years == SortedInts(Column(registration_data, "login_academic_year"))

\* Summary
total_registrations == Len(registration_data)

(***************************************************************************)
(* Filter data.                                                            *)
(***************************************************************************)
\* data[data[col].isin(values)]
IsIn(data, col, values) ==
    LET Keep(r) == r[col] \in Range(values) IN SelectSeq(data, Keep)

\* Faulty variant: the year constraint applied to academic_year in both view modes.
filter_data_Mutant(data, years, dts, pfs, cs, ts, field) ==
    LET f1 == IF years # <<>> THEN IsIn(data, "academic_year", years) ELSE data
        f2 == IF dts # <<>> THEN IsIn(f1, "degreetype", dts) ELSE f1
        f3 == IF pfs # <<>> THEN IsIn(f2, "primary_field", pfs) ELSE f2
        f4 == IF cs # <<>> THEN IsIn(f3, "country", cs) ELSE f3
    IN  IF ts # <<>> THEN IsIn(f4, "tier", ts) ELSE f4

filter_data(data, years, dts, pfs, cs, ts, field) ==
    LET f1 == IF years # <<>>
              THEN IF field = "enrolldate"
                   THEN IsIn(data, "academic_year", years)
                   ELSE IsIn(data, "login_academic_year", years)
              ELSE data
        f2 == IF dts # <<>> THEN IsIn(f1, "degreetype", dts) ELSE f1
        f3 == IF pfs # <<>> THEN IsIn(f2, "primary_field", pfs) ELSE f2
        f4 == IF cs # <<>> THEN IsIn(f3, "country", cs) ELSE f3
    IN  IF ts # <<>> THEN IsIn(f4, "tier", ts) ELSE f4

(***************************************************************************)
(* Callbacks.                                                              *)
(***************************************************************************)
\* f"{int(year)}-{int(year)+1}": the two numbers of the label.
YearLabel(year) == <<year, year + 1>>

\* Faulty variant: the two lists of years exchanged.
update_year_options_Mutant(selected_date_field) ==
    LET years == IF selected_date_field = "enrolldate"
                 THEN login_academic_years ELSE academic_years
    IN  [i \in 1..Len(years) |-> [label |-> YearLabel(years[i]), value |-> years[i]]]

\* Year callback.
update_year_options(selected_date_field) ==
    LET years == IF selected_date_field = "enrolldate"
                 THEN academic_years ELSE login_academic_years
    IN  [i \in 1..Len(years) |-> [label |-> YearLabel(years[i]), value |-> years[i]]]

\* Faulty variant: a click leaves the selected years as they are.
clear_filters_Mutant(clicks) ==
    IF clicks # 0
    THEN <<selected_years, <<>>, <<>>, <<>>, <<>>>>
    ELSE <<<<>>, <<>>, <<>>, <<>>, <<>>>>

\* Clear filter callback: the five values, in the order of its outputs.
clear_filters(clicks) ==
    IF clicks # 0
    THEN <<<<>>, <<>>, <<>>, <<>>, <<>>>>
    ELSE <<<<>>, <<>>, <<>>, <<>>, <<>>>>

\* The column of academic years that the view mode selects.
YearColumn(field) ==
    IF field = "enrolldate" THEN "academic_year" ELSE "login_academic_year"

\* len(data[data[col] == value])
CountEq(data, col, value) ==
    LET Eq(r) == r[col] = value IN Len(SelectSeq(data, Eq))

\* f"{x:.1f}" of x = count / total * 100, in tenths of a percent: the nearest
\* tenth, a tie going to the even one.  total > 0.
PercentTenths(count, total) ==
    LET n == count * 1000
        q == n \div total
        r == n % total
    IN  IF 2 * r < total THEN q
        ELSE IF 2 * r > total THEN q + 1
        ELSE IF q % 2 = 0 THEN q ELSE q + 1

\* html.P([html.Strong(...), html.Span(...)])
StatLine(kind, label, span) == [kind |-> kind, label |-> label, span |-> span]

\* Filter stats callback.  The result is [raised, children]: raised is TRUE
\* when the division by total_registrations raises ZeroDivisionError.
update_filter_stats(field, years, dts, pfs, cs, ts) ==
    LET filtered_data == filter_data(registration_data, years, dts, pfs, cs, ts, field)
        filtered_total == Len(filtered_data)
        col == YearColumn(field)
        head == << StatLine("Total", <<>>, filtered_total),
                   StatLine("% of Total", <<>>,
                            PercentTenths(filtered_total, total_registrations)) >>
        \* groupby(col).size().sort_index(ascending=False)
        present == Reverse(SortedInts(Column(filtered_data, col)))
        chosen == Reverse(SortedInts(Range(years)))
        ys == IF years = <<>> THEN present ELSE chosen
        breakdown == [i \in 1..Len(ys) |->
                        StatLine("year", YearLabel(ys[i]), CountEq(filtered_data, col, ys[i]))]
    IN  IF total_registrations = 0
        THEN [raised |-> TRUE, children |-> <<>>]
        ELSE [raised |-> FALSE, children |-> head \o breakdown]

update_chart_subtitle(field) ==
    IF field = "enrolldate"
    THEN "Growth curve based on enrollment date"
    ELSE "Growth curve based on last login date"

colors == <<"#1f77b4", "#ff7f0e", "#2ca02c", "#d62728", "#9467bd",
            "#8c564b", "#e377c2", "#7f7f7f", "#bcbd22", "#17becf">>

academic_month_names ==
    <<"Jun", "Jul", "Aug", "Sep", "Oct", "Nov", "Dec", "Jan", "Feb", "Mar", "Apr", "May">>
academic_month_positions == <<0, 30, 61, 92, 122, 153, 183, 214, 245, 273, 304, 334>>

xaxis_config ==
    [tickvals |-> academic_month_positions, ticktext |-> academic_month_names,
     range |-> <<0, 365>>]

\* The x axis of a figure whose layout sets only the axis title.
xaxis_default == [tickvals |-> <<>>, ticktext |-> <<>>, range |-> <<>>]

\* A figure: the layout's title and axis titles, the x axis and the traces.
Figure(title, xt, yt, xaxis, data) ==
    [title |-> title, xaxis_title |-> xt, yaxis_title |-> yt, xaxis |-> xaxis,
     data |-> data]

\* dcc.Graph before any callback has set its figure.
figure_unset == Figure(<<>>, "", "", xaxis_default, <<>>)

empty_fig ==
    Figure(<<"No data available for selected filters">>, "Time", "Cumulative Count",
           xaxis_default, <<>>)

\* filtered_data.dropna(subset=[field])
dropna(data, field) ==
    LET Present(r) == r[field] # NaT IN SelectSeq(data, Present)

\* The body of the loop over the years: the trace of one year, as a list of
\* at most one go.Scatter.  i is the index that enumerate gives the year.
year_traces(filtered_data, field, i, academic_year) ==
    LET col == YearColumn(field)
        InYear(r) == r[col] = academic_year
        year_data == SelectSeq(filtered_data, InYear)
        sorted_data == sort_values(year_data, field)
        cumulative_count == arange1(Len(sorted_data))
        academic_timeline ==
            [k \in 1..Len(sorted_data) |->
                date_to_academic_days(sorted_data[k][field], academic_year)]
    IN  IF Len(year_data) > 0
        THEN << [x |-> academic_timeline, y |-> cumulative_count,
                 name |-> YearLabel(academic_year),
                 color |-> colors[(i % Len(colors)) + 1]] >>
        ELSE <<>>

RECURSIVE add_traces(_, _, _, _)
\* for i, academic_year in enumerate(years_to_show): the traces added from
\* position i + 1 of years_to_show on.
add_traces(filtered_data, field, years_to_show, i) ==
    IF i >= Len(years_to_show) THEN <<>>
    ELSE year_traces(filtered_data, field, i, years_to_show[i + 1])
         \o add_traces(filtered_data, field, years_to_show, i + 1)

\* The title of the chart.
title_text(field, years) ==
    IF field = "enrolldate"
    THEN IF years = <<>> THEN <<"Cumulative Count by Enrollment Date - All Years">>
         ELSE IF Len(years) = 1
              THEN <<"Cumulative Count by Enrollment Date - ">> \o YearLabel(years[1])
              ELSE <<"Cumulative Count by Enrollment Date - Years">>
    ELSE IF years = <<>> THEN <<"Cumulative Count by Last Login Date - All Years">>
         ELSE IF Len(years) = 1
              THEN <<"Cumulative Count by Last Login Date - ">> \o YearLabel(years[1])
              ELSE <<"Cumulative Count by Last Login Date - Selected Years">>

\* Faulty variant: no early return of the 'no data' figure.
update_graph_Mutant(field, years, dts, pfs, cs, ts) ==
    LET filtered_data ==
            dropna(filter_data(registration_data, years, dts, pfs, cs, ts, field), field)
        years_to_show ==
            IF years = <<>>
            THEN SortedInts(Column(filtered_data, YearColumn(field)))
            ELSE years
    IN  Figure(title_text(field, years), "Timeline", "Cumulative Count", xaxis_config,
               add_traces(filtered_data, field, years_to_show, 0))

\* Graph callback.
update_graph(field, years, dts, pfs, cs, ts) ==
    LET filtered_data ==
            dropna(filter_data(registration_data, years, dts, pfs, cs, ts, field), field)
        years_to_show ==
            IF years = <<>>
            THEN SortedInts(Column(filtered_data, YearColumn(field)))
            ELSE years
    IN  IF Len(filtered_data) = 0
        THEN empty_fig
        ELSE Figure(title_text(field, years), "Timeline", "Cumulative Count",
                    xaxis_config,
                    add_traces(filtered_data, field, years_to_show, 0))

(***************************************************************************)
(* The page.  Dash runs a callback when one of its inputs changes, and     *)
(* every callback once when the page is first served; a user event and the *)
(* callbacks it triggers form one step.                                    *)
(***************************************************************************)
\* The run of update_filter_stats and update_graph on the given inputs.  A
\* callback that raises leaves its output as it was.
Render(field, years, dts, pfs, cs, ts) ==
    LET st == update_filter_stats(field, years, dts, pfs, cs, ts)
    IN  /\ stats_raised' = st.raised
        /\ filter_stats' = IF st.raised THEN filter_stats ELSE st.children
        /\ figure' = update_graph(field, years, dts, pfs, cs, ts)

\* app.layout: the state of the components before any callback has run.
Layout ==
    /\ page = "layout"
    /\ date_field = "enrolldate"
    /\ year_options = <<>>
    /\ selected_years = <<>>
    /\ selected_degree_types = <<>>
    /\ selected_fields = <<>>
    /\ selected_countries = <<>>
    /\ selected_tiers = <<>>
    /\ n_clicks = 0
    /\ filter_stats = <<>>
    /\ stats_raised = FALSE
    /\ chart_subtitle = ""
    /\ figure = figure_unset

Init ==
    /\ raw_data \in Responses
    /\ registration_data = preprocess(raw_data)
    /\ Layout
    /\ cal_date = cutoff_date
    /\ cal_done = FALSE
    /\ cal_ay = 0
    /\ cal_days = 0

\* The page is served: every callback runs once, clear_filters first since
\* its outputs are inputs of the others.
PageLoad ==
    /\ page = "layout"
    /\ page' = "ready"
    /\ LET out == clear_filters(n_clicks)
       IN  /\ selected_years' = out[1]
           /\ selected_degree_types' = out[2]
           /\ selected_fields' = out[3]
           /\ selected_countries' = out[4]
           /\ selected_tiers' = out[5]
           /\ Render(date_field, out[1], out[2], out[3], out[4], out[5])
    /\ year_options' = update_year_options(date_field)
    /\ chart_subtitle' = update_chart_subtitle(date_field)
    /\ UNCHANGED <<raw_data, registration_data, date_field, n_clicks>>
    /\ UNCHANGED calVars

\* The user picks the other view mode.
SetDateField ==
    /\ page = "ready"
    /\ \E f \in {"enrolldate", "date_last_login"} \ {date_field} :
          /\ date_field' = f
          /\ year_options' = update_year_options(f)
          /\ chart_subtitle' = update_chart_subtitle(f)
          /\ Render(f, selected_years, selected_degree_types, selected_fields,
                    selected_countries, selected_tiers)
    /\ UNCHANGED <<raw_data, registration_data, page, selected_years,
                   selected_degree_types, selected_fields, selected_countries,
                   selected_tiers, n_clicks>>
    /\ UNCHANGED calVars

\* A multi-select dropdown: the value is the list of the chosen options in
\* the order in which they were chosen.
Remove(s, i) == SubSeq(s, 1, i - 1) \o SubSeq(s, i + 1, Len(s))
Picks(options, value) ==
    {Append(value, o) : o \in Range(options) \ Range(value)}
    \cup {Remove(value, i) : i \in 1..Len(value)}

OptionValues(options) == [i \in 1..Len(options) |-> options[i].value]

ChangeYears ==
    /\ page = "ready"
    /\ \E v \in Picks(OptionValues(year_options), selected_years) :
          /\ selected_years' = v
          /\ Render(date_field, v, selected_degree_types, selected_fields,
                    selected_countries, selected_tiers)
    /\ UNCHANGED <<raw_data, registration_data, page, date_field, year_options,
                   selected_degree_types, selected_fields, selected_countries,
                   selected_tiers, n_clicks, chart_subtitle>>
    /\ UNCHANGED calVars

ChangeDegreeTypes ==
    /\ page = "ready"
    /\ \E v \in Picks(degree_types, selected_degree_types) :
          /\ selected_degree_types' = v
          /\ Render(date_field, selected_years, v, selected_fields,
                    selected_countries, selected_tiers)
    /\ UNCHANGED <<raw_data, registration_data, page, date_field, year_options,
                   selected_years, selected_fields, selected_countries,
                   selected_tiers, n_clicks, chart_subtitle>>
    /\ UNCHANGED calVars

ChangeFields ==
    /\ page = "ready"
    /\ \E v \in Picks(primary_fields, selected_fields) :
          /\ selected_fields' = v
          /\ Render(date_field, selected_years, selected_degree_types, v,
                    selected_countries, selected_tiers)
    /\ UNCHANGED <<raw_data, registration_data, page, date_field, year_options,
                   selected_years, selected_degree_types, selected_countries,
                   selected_tiers, n_clicks, chart_subtitle>>
    /\ UNCHANGED calVars

ChangeCountries ==
    /\ page = "ready"
    /\ \E v \in Picks(countries, selected_countries) :
          /\ selected_countries' = v
          /\ Render(date_field, selected_years, selected_degree_types,
                    selected_fields, v, selected_tiers)
    /\ UNCHANGED <<raw_data, registration_data, page, date_field, year_options,
                   selected_years, selected_degree_types, selected_fields,
                   selected_tiers, n_clicks, chart_subtitle>>
    /\ UNCHANGED calVars

ChangeTiers ==
    /\ page = "ready"
    /\ \E v \in Picks(tiers, selected_tiers) :
          /\ selected_tiers' = v
          /\ Render(date_field, selected_years, selected_degree_types,
                    selected_fields, selected_countries, v)
    /\ UNCHANGED <<raw_data, registration_data, page, date_field, year_options,
                   selected_years, selected_degree_types, selected_fields,
                   selected_countries, n_clicks, chart_subtitle>>
    /\ UNCHANGED calVars

\* The user clicks "Clear All Filters".
ClickClear ==
    /\ page = "ready"
    /\ n_clicks < MaxClicks
    /\ n_clicks' = n_clicks + 1
    /\ LET out == clear_filters(n_clicks + 1)
       IN  /\ selected_years' = out[1]
           /\ selected_degree_types' = out[2]
           /\ selected_fields' = out[3]
           /\ selected_countries' = out[4]
           /\ selected_tiers' = out[5]
           /\ Render(date_field, out[1], out[2], out[3], out[4], out[5])
    /\ UNCHANGED <<raw_data, registration_data, page, date_field, year_options,
                   chart_subtitle>>
    /\ UNCHANGED calVars

Next ==
    \/ PageLoad
    \/ SetDateField
    \/ ChangeYears
    \/ ChangeDegreeTypes
    \/ ChangeFields
    \/ ChangeCountries
    \/ ChangeTiers
    \/ ClickClear

Spec == Init /\ [][Next]_vars

(***************************************************************************)
(* Calendar study.  The process is started on a response holding one       *)
(* registration whose enrollment and last login are the timestamp under    *)
(* study; the academic calendar mapper is applied to that timestamp, and   *)
(* the page is served in both view modes.                                  *)
(***************************************************************************)
CalFirstYear == CutoffYear - 1
CalYears == CalFirstYear..(CalFirstYear + CalSpan)
\* Hours of the day the study draws from: the first and the last.
CalHours == {0, 23}

CalDates ==
    {Ts(y, m, d, h) : y \in CalYears, m \in 1..12, d \in 1..31, h \in CalHours}
    \ {t \in [year : CalYears, month : 1..12, day : 29..31, hour : CalHours] :
         t.day > DaysInMonth(t.year, t.month)}

\* The calendar day after the day of ts, at hour h.
NextDayOf(ts, h) ==
    IF ts.day < DaysInMonth(ts.year, ts.month)
    THEN Ts(ts.year, ts.month, ts.day + 1, h)
    ELSE IF ts.month < 12 THEN Ts(ts.year, ts.month + 1, 1, h)
    ELSE Ts(ts.year + 1, 1, 1, h)

CalResponse(ts) == << Raw(ts, ts, "PhD", "Macro", "US", 1) >>

CalInit ==
    /\ cal_date \in CalDates
    /\ cal_done = FALSE
    /\ cal_ay = 0
    /\ cal_days = 0
    /\ raw_data = CalResponse(cal_date)
    /\ registration_data = preprocess(raw_data)
    /\ Layout

\* The mapper is applied to the timestamp under study.
CalConvert ==
    /\ ~cal_done
    /\ cal_done' = TRUE
    /\ cal_ay' = get_academic_year(cal_date)
    /\ cal_days' = date_to_academic_days(cal_date, get_academic_year(cal_date))
    /\ UNCHANGED cal_date
    /\ UNCHANGED appVars

\* The study moves to the next calendar day: the mapper is applied to it and
\* the process is started again on the response of that day.
CalNextDay ==
    /\ cal_done
    /\ \E h \in CalHours :
          /\ NextDayOf(cal_date, h) \in CalDates
          /\ cal_date' = NextDayOf(cal_date, h)
    /\ cal_ay' = get_academic_year(cal_date')
    /\ cal_days' = date_to_academic_days(cal_date', get_academic_year(cal_date'))
    /\ raw_data' = CalResponse(cal_date')
    /\ registration_data' = preprocess(raw_data')
    /\ page' = "layout"
    /\ date_field' = "enrolldate"
    /\ year_options' = <<>>
    /\ selected_years' = <<>>
    /\ selected_degree_types' = <<>>
    /\ selected_fields' = <<>>
    /\ selected_countries' = <<>>
    /\ selected_tiers' = <<>>
    /\ n_clicks' = 0
    /\ filter_stats' = <<>>
    /\ stats_raised' = FALSE
    /\ chart_subtitle' = ""
    /\ figure' = figure_unset
    /\ UNCHANGED cal_done

CalNext == CalConvert \/ CalNextDay \/ PageLoad \/ SetDateField

CalSpec == CalInit /\ [][CalNext]_vars

(***************************************************************************)
(* Properties.                                                             *)
(***************************************************************************)
ViewModes == {"enrolldate", "date_last_login"}

\* The current inputs of the callbacks, filtered.
Filtered(field) ==
    filter_data(registration_data, selected_years, selected_degree_types,
                selected_fields, selected_countries, selected_tiers, field)

\* A constraint: an empty selection admits every value.
Admits(selection, value) ==
    selection = <<>> \/ \E i \in 1..Len(selection) : selection[i] = value

\* The record satisfies every constraint of the current selection.
Satisfies(r, field) ==
    /\ Admits(selected_years,
              IF field = "enrolldate" THEN r.academic_year ELSE r.login_academic_year)
    /\ Admits(selected_degree_types, r.degreetype)
    /\ Admits(selected_fields, r.primary_field)
    /\ Admits(selected_countries, r.country)
    /\ Admits(selected_tiers, r.tier)

\* C1: in either view mode filter_data keeps exactly the records that satisfy
\* every non-empty constraint (the year constraint on academic_year in
\* 'enrolldate' mode, on login_academic_year otherwise); an empty constraint
\* restricts nothing, so the all-empty selection returns every record.
C1_FilterConjunctive ==
    \A field \in ViewModes :
        /\ LET Sat(r) == Satisfies(r, field)
           IN  Filtered(field) = SelectSeq(registration_data, Sat)
        /\ filter_data(registration_data, <<>>, <<>>, <<>>, <<>>, <<>>, field)
              = registration_data

\* A last-login view with a year and a degree constraint that keep some records
\* and drop others, while a record with a missing country is kept.
C1_Witness ==
    /\ page = "ready"
    /\ date_field = "date_last_login"
    /\ selected_years # <<>>
    /\ selected_degree_types # <<>>
    /\ selected_countries = <<>>
    /\ Len(Filtered(date_field)) > 0
    /\ Len(Filtered(date_field)) < Len(registration_data)
    /\ \E i \in 1..Len(Filtered(date_field)) : Filtered(date_field)[i].country = None

\* The number of the current filtered records of academic year y (in the
\* current view mode) that have the active date.
Eligible(y) ==
    LET fd == Filtered(date_field)
    IN  {i \in 1..Len(fd) : fd[i][YearColumn(date_field)] = y /\ fd[i][date_field] # NaT}

\* The traces of the figure for academic year y.
TracesOf(y) == {j \in 1..Len(figure.data) : figure.data[j].name = YearLabel(y)}

\* C2: for every academic year present in the filtered records, the figure
\* has one series for the year; its cumulative counts are 1, 2, ..., N with N
\* the number of filtered records of the year that have the active date, and
\* its day offsets are those of these records in ascending order.
C2_CumulativeSeries ==
    page = "ready" =>
        \A y \in Column(Filtered(date_field), YearColumn(date_field)) :
            LET fd == Filtered(date_field)
                n == Cardinality(Eligible(y))
            IN  /\ Cardinality(TracesOf(y)) = (IF n > 0 THEN 1 ELSE 0)
                /\ \A j \in TracesOf(y) :
                      LET t == figure.data[j]
                      IN  /\ Len(t.y) = n
                          /\ Len(t.x) = n
                          /\ \A k \in 1..n : t.y[k] = k
                          /\ \A k \in 1..(n - 1) : t.x[k] <= t.x[k + 1]
                          /\ \A v \in Range(t.x) \cup
                                      {TimedeltaDays(fd[i][date_field], Timestamp(y, 6, 1)) :
                                          i \in Eligible(y)} :
                                Cardinality({k \in 1..n : t.x[k] = v})
                                  = Cardinality({i \in Eligible(y) :
                                        TimedeltaDays(fd[i][date_field], Timestamp(y, 6, 1)) = v})

\* A series of three points, the first two on the same day, drawn from
\* records that the response lists in another order.
C2_Witness ==
    /\ page = "ready"
    /\ \E j \in 1..Len(figure.data) :
          /\ figure.data[j].y = <<1, 2, 3>>
          /\ figure.data[j].x[1] = figure.data[j].x[2]
          /\ figure.data[j].x[2] < figure.data[j].x[3]
    /\ registration_data[1].enrolldate.year = 2023

\* June 1 of year y and May 31 of year y, as day numbers.
JuneFirst(y) == Ordinal(y, 6, 1)
MayLast(y) == Ordinal(y, 5, 31)
CalDay == Ordinal(cal_date.year, cal_date.month, cal_date.day)

\* C3: get_academic_year(d) is the year Y whose span June 1 Y .. May 31 Y+1
\* holds d (so June 1 of Y maps to Y and May 31 of Y to Y-1), and from one
\* day to the next it grows by one when the next day is a June 1 and stays
\* the same otherwise.
C3_AcademicYearSpans ==
    /\ [](cal_done =>
            /\ JuneFirst(cal_ay) <= CalDay
            /\ CalDay <= MayLast(cal_ay + 1)
            /\ (cal_date.month = 6 /\ cal_date.day = 1 => cal_ay = cal_date.year)
            /\ (cal_date.month = 5 /\ cal_date.day = 31 => cal_ay = cal_date.year - 1))
    /\ [][cal_done /\ cal_date' # cal_date =>
            cal_ay' = cal_ay + (IF cal_date'.month = 6 /\ cal_date'.day = 1 THEN 1 ELSE 0)]_vars

\* The mapper was applied to a June 1, late in the day.
C3_Witness ==
    /\ cal_done
    /\ cal_date.month = 6
    /\ cal_date.day = 1
    /\ cal_date.hour = 23
    /\ cal_ay = cal_date.year

\* C4: the day offset of a timestamp within its own academic year is in
\* 0..365, and so is every x of every series of the figure.
C4_OffsetRange ==
    /\ cal_done => cal_days \in 0..365
    /\ \A j \in 1..Len(figure.data) :
          \A k \in 1..Len(figure.data[j].x) : figure.data[j].x[k] \in 0..365

\* May 31 of a leap year: the offset is 365, in the study and in the figure.
C4_Witness ==
    /\ cal_done
    /\ cal_days = 365
    /\ date_field = "date_last_login"
    /\ \E j \in 1..Len(figure.data) : figure.data[j].x = <<365>>

\* The current filtered records that have the active date.
Plotted == dropna(Filtered(date_field), date_field)

\* C5: when no filtered record has the active date the figure is the 'no
\* data' figure (its title, both axis titles, no series), and a figure
\* without series is never anything else.
C5_NoDataFigure ==
    page = "ready" =>
        /\ Len(Plotted) = 0 =>
              /\ figure.title = <<"No data available for selected filters">>
              /\ figure.xaxis_title = "Time"
              /\ figure.yaxis_title = "Cumulative Count"
              /\ figure.data = <<>>
        /\ figure.data = <<>> =>
              figure.title = <<"No data available for selected filters">>
        /\ Len(Plotted) > 0 =>
              figure.title # <<"No data available for selected filters">>

\* Records were retained, and the selection excludes all of them.
C5_Witness ==
    /\ page = "ready"
    /\ Len(registration_data) > 0
    /\ Len(Plotted) = 0
    /\ figure.title = <<"No data available for selected filters">>

\* C6: a click on the clear-filters button empties the five selections and
\* leaves the view mode as it is.
C6_ClearResets ==
    [][n_clicks' # n_clicks =>
          /\ selected_years' = <<>>
          /\ selected_degree_types' = <<>>
          /\ selected_fields' = <<>>
          /\ selected_countries' = <<>>
          /\ selected_tiers' = <<>>
          /\ date_field' = date_field]_vars

\* The button was clicked in the last-login view: the selections are empty.
C6_Witness ==
    /\ n_clicks > 0
    /\ date_field = "date_last_login"
    /\ selected_years = <<>>
    /\ selected_degree_types = <<>>
    /\ selected_fields = <<>>
    /\ selected_countries = <<>>
    /\ selected_tiers = <<>>

\* C7: a change of the view mode sets the year options to the distinct
\* academic years of the new active date field, ascending, each labelled
\* "Y-(Y+1)", and leaves the five selections as they are.
C7_ModeSwitch ==
    [][date_field' # date_field =>
          /\ {year_options'[i].value : i \in 1..Len(year_options')}
                = {registration_data[i][YearColumn(date_field')] :
                     i \in 1..Len(registration_data)}
          /\ \A i \in 1..(Len(year_options') - 1) :
                year_options'[i].value < year_options'[i + 1].value
          /\ \A i \in 1..Len(year_options') :
                year_options'[i].label
                  = <<year_options'[i].value, year_options'[i].value + 1>>
          /\ selected_years' = selected_years
          /\ selected_degree_types' = selected_degree_types
          /\ selected_fields' = selected_fields
          /\ selected_countries' = selected_countries
          /\ selected_tiers' = selected_tiers]_vars

\* The last-login view, with a selected year that is not among its options.
C7_Witness ==
    /\ page = "ready"
    /\ date_field = "date_last_login"
    /\ year_options # <<>>
    /\ \E i \in 1..Len(selected_years) :
          \A k \in 1..Len(year_options) : year_options[k].value # selected_years[i]

\* The position of year y among years, a list without repetitions.
PositionIn(years, y) == CHOOSE i \in 1..Len(years) : years[i] = y

\* The academic year a trace is named after.
TraceYear(t) == t.name[1]

\* C8: with a non-empty year selection the selected years are processed in
\* ascending order: the series follow ascending academic year, and the
\* colour of a series is the one at the year's position among the selected
\* years in ascending order.
C8_SelectedYearsAscending ==
    page = "ready" /\ selected_years # <<>> =>
        LET ascending == SortedInts(Range(selected_years))
        IN  /\ \A j \in 1..(Len(figure.data) - 1) :
                  TraceYear(figure.data[j]) < TraceYear(figure.data[j + 1])
            /\ \A j \in 1..Len(figure.data) :
                  figure.data[j].color
                    = colors[((PositionIn(ascending, TraceYear(figure.data[j])) - 1)
                                % Len(colors)) + 1]

\* C9: the statistics show the percentage filtered count / total * 100 (to
\* one decimal), and 0% when the total is zero; update_filter_stats does not
\* fail.
C9_PercentGuarded ==
    page = "ready" =>
        /\ ~stats_raised
        /\ Len(filter_stats) >= 2
        /\ filter_stats[2].kind = "% of Total"
        /\ LET count == Len(Filtered(date_field))
               total == Len(registration_data)
           IN  IF total = 0
               THEN filter_stats[2].span = 0
               ELSE /\ 2 * total * filter_stats[2].span >= 2000 * count - total
                    /\ 2 * total * filter_stats[2].span <= 2000 * count + total

\* A timestamp on or after 2021-06-01, field by field.
OnOrAfterCutoff(ts) ==
    /\ ts # NaT
    /\ \/ ts.year > 2021
       \/ ts.year = 2021 /\ ts.month >= 6

\* The upstream fields of a record of registration_data.
Upstream(r) ==
    [enrolldate |-> r.enrolldate, date_last_login |-> r.date_last_login,
     degreetype |-> r.degreetype, primary_field |-> r.primary_field,
     country |-> r.country, tier |-> r.tier]

\* C10: registration_data is always the upstream records whose enrollment
\* and last login are both on or after 2021-06-01, in order, each with its
\* two academic years (both at least 2021); no step changes it.
C10_DatasetFixed ==
    /\ [](LET Retained(r) == OnOrAfterCutoff(r.enrolldate)
                             /\ OnOrAfterCutoff(r.date_last_login)
          IN  /\ [i \in 1..Len(registration_data) |-> Upstream(registration_data[i])]
                   = SelectSeq(raw_data, Retained)
              /\ \A i \in 1..Len(registration_data) :
                    /\ OnOrAfterCutoff(registration_data[i].enrolldate)
                    /\ OnOrAfterCutoff(registration_data[i].date_last_login)
                    /\ registration_data[i].academic_year >= 2021
                    /\ registration_data[i].login_academic_year >= 2021)
    /\ [][registration_data' = registration_data /\ raw_data' = raw_data]_vars

\* After a view-mode change, a selection and a clear, with records retained
\* and records dropped at load.
C10_Witness ==
    /\ page = "ready"
    /\ n_clicks > 0
    /\ date_field = "date_last_login"
    /\ selected_degree_types # <<>>
    /\ Len(registration_data) > 0
    /\ Len(registration_data) < Len(raw_data)

RECURSIVE SumFinalCounts(_)
\* The sum, over the traces, of the last cumulative count of each.
SumFinalCounts(traces) ==
    IF traces = <<>> THEN 0
    ELSE LET t == Head(traces)
         IN  (IF t.y = <<>> THEN 0 ELSE t.y[Len(t.y)]) + SumFinalCounts(Tail(traces))

\* C11: the statistics and the chart agree: update_filter_stats shows a
\* total, and it is the sum of the final cumulative counts of the series of
\* the figure (zero for the 'no data' figure).
C11_StatsMatchChart ==
    page = "ready" =>
        /\ ~stats_raised
        /\ Len(filter_stats) >= 1
        /\ filter_stats[1].kind = "Total"
        /\ filter_stats[1].span = SumFinalCounts(figure.data)

====
